---- MODULE Spec2Model ----
(***************************************************************************)
(* Model of the weather bot: the three deployed variants of the handlers   *)
(* (src/bot.js, src/api/bot.js, src/unnamed/part_000), the command parser, *)
(* the summary formatter and the callback dispatcher.                      *)
(*                                                                         *)
(* Strings the code inspects character by character (message text,         *)
(* callback data, location, preferences) are sequences of one-character    *)
(* strings.  Strings the code only copies (fields of the model's report,   *)
(* literal fragments of templates) are single tokens.  A message body is a *)
(* sequence of lines, a line a sequence of tokens; "\n\n" leaves an empty  *)
(* line.  An optional value is <<>> when absent and <<v>> when present.    *)
(***************************************************************************)
EXTENDS Integers, Sequences, FiniteSets, TLC

VARIABLES
  variant,      \* which source file is deployed: "bot", "api" or "part"
  pc,           \* per update: where its handler is
  upd,          \* per update: the update delivered by the transport
  action,       \* per update: local `action` of the callback handler
  location,     \* per update: local `location`
  preferences,  \* per update: local `preferences`
  weatherData,  \* per update: local `weatherData` (optional), as last bound
  fx,           \* per update: the calls made on the bot and the model client
  generation,   \* per update: state of the promise generateObject returned
  cmdIn,        \* parser harness: how the command text was typed
  cmdOut        \* parser harness: result of parseWeatherCommand (optional)

vars == <<variant, pc, upd, action, location, preferences, weatherData, fx,
          generation, cmdIn, cmdOut>>

handlerVars == <<variant, pc, upd, action, location, preferences,
                 weatherData, fx, generation>>

(***************************************************************************)
(* Bounds                                                                  *)
(***************************************************************************)
MaxSegs == 3        \* segments of a typed command
MaxPieces == 3      \* pieces of a message text
MaxTail == 3        \* characters after the head of a callback payload
MaxItems == 2       \* entries of a suggestion list
MaxUpdates == 2     \* updates being handled at the same time

(***************************************************************************)
(* Characters and strings                                                  *)
(***************************************************************************)
TAB == "\t"

None == <<>>
Some(v) == <<v>>
Undefined == <<"undefined">>

UpperLetters ==
  <<"A","B","C","D","E","F","G","H","I","J","K","L","M",
    "N","O","P","Q","R","S","T","U","V","W","X","Y","Z">>
LowerLetters ==
  <<"a","b","c","d","e","f","g","h","i","j","k","l","m",
    "n","o","p","q","r","s","t","u","v","w","x","y","z">>

LowerChar(c) ==
  IF \E i \in 1..26 : UpperLetters[i] = c
  THEN LowerLetters[CHOOSE i \in 1..26 : UpperLetters[i] = c]
  ELSE c

ToLowerCase(s) == [i \in 1..Len(s) |-> LowerChar(s[i])]

IsSpace(c) == c \in {" ", TAB, "\n"}

StartsWith(s, p) == Len(s) >= Len(p) /\ SubSeq(s, 1, Len(p)) = p

Includes(s, p) ==
  \E i \in 0..(Len(s) - Len(p)) : SubSeq(s, i + 1, i + Len(p)) = p

TrimStart(s) ==
  IF \A i \in 1..Len(s) : IsSpace(s[i])
  THEN <<>>
  ELSE SubSeq(s, CHOOSE i \in 1..Len(s) :
                   /\ ~IsSpace(s[i])
                   /\ \A j \in 1..(i - 1) : IsSpace(s[j]),
              Len(s))

TrimEnd(s) ==
  IF \A i \in 1..Len(s) : IsSpace(s[i])
  THEN <<>>
  ELSE SubSeq(s, 1, CHOOSE i \in 1..Len(s) :
                      /\ ~IsSpace(s[i])
                      /\ \A j \in (i + 1)..Len(s) : IsSpace(s[j]))

Trim(s) == TrimEnd(TrimStart(s))

RECURSIVE SplitFrom(_, _, _)
\* String.prototype.split on a one-character separator class: `cur` is the
\* segment being read; an empty input still yields one (empty) segment.
SplitFrom(s, seps, cur) ==
  IF s = <<>> THEN <<cur>>
  ELSE IF Head(s) \in seps
       THEN <<cur>> \o SplitFrom(Tail(s), seps, <<>>)
       ELSE SplitFrom(Tail(s), seps, Append(cur, Head(s)))

Split(s, seps) == SplitFrom(s, seps, <<>>)

RECURSIVE Join(_, _)
Join(parts, sep) ==
  IF parts = <<>> THEN <<>>
  ELSE IF Len(parts) = 1 THEN parts[1]
  ELSE parts[1] \o sep \o Join(Tail(parts), sep)

SlashWeather == <<"/","w","e","a","t","h","e","r">>
WeatherWord == <<"w","e","a","t","h","e","r">>
SlashW == <<"/","w">>
SlashStart == <<"/","s","t","a","r","t">>
SlashHelp == <<"/","h","e","l","p">>

CommandDelims == {",", ";", "|"}

(***************************************************************************)
(* parseWeatherCommand                                                     *)
(***************************************************************************)
\* text.replace(/^\/weather\s*/i, "")
StripWeatherPrefix(text) ==
  IF StartsWith(ToLowerCase(text), SlashWeather)
  THEN TrimStart(SubSeq(text, Len(SlashWeather) + 1, Len(text)))
  ELSE text

ParseWeatherCommand_CommaOnly(text) ==
  LET cleanText == Trim(StripWeatherPrefix(text))
      parts == Split(cleanText, {","})
  IN [location |-> Trim(parts[1]),
      preferences |-> Trim(Join(Tail(parts), <<" ">>))]

ParseWeatherCommand(text) ==
  LET cleanText == Trim(StripWeatherPrefix(text))
      parts == Split(cleanText, CommandDelims)
  IN [location |-> Trim(parts[1]),
      preferences |-> Trim(Join(Tail(parts), <<" ">>))]

(***************************************************************************)
(* Parser harness: a command typed as an optional /weather token, optional *)
(* whitespace, and segments separated by delimiters.                       *)
(***************************************************************************)
CmdPrefixes == {<<>>, SlashWeather, <<"/","W","e","a","T","h","e","r">>}
CmdGaps == {<<>>, <<" ">>, <<" ", TAB>>}
CmdSegments == {<<>>, <<"P">>, <<" ", "P">>, <<"P", " ", "a", " ">>, <<" ">>}
CmdDelimStyles == {<<",", ",">>, <<";", ";">>, <<"|", "|">>, <<",", ";">>, <<"|", ",">>}

SeqsUpTo(S, n) == UNION {[1..k -> S] : k \in 0..n}

CmdInputs ==
  [prefix : CmdPrefixes, gap : CmdGaps,
   segs : SeqsUpTo(CmdSegments, MaxSegs) \ {<<>>},
   delims : CmdDelimStyles]

\* the delimiter typed after segment i
DelimAfter(c, i) == c.delims[((i - 1) % 2) + 1]

RECURSIVE CmdBody(_, _)
CmdBody(c, i) ==
  IF i = Len(c.segs) THEN c.segs[i]
  ELSE c.segs[i] \o <<DelimAfter(c, i)>> \o CmdBody(c, i + 1)

CmdText(c) == c.prefix \o c.gap \o CmdBody(c, 1)

\* no update is being handled while the parser is exercised alone
IdleHandlers ==
  /\ variant = "bot"
  /\ pc = <<>> /\ upd = <<>> /\ action = <<>> /\ location = <<>>
  /\ preferences = <<>> /\ weatherData = <<>> /\ fx = <<>>
  /\ generation = <<>>

InitParse ==
  /\ IdleHandlers
  /\ cmdIn \in CmdInputs
  /\ cmdOut = None

Parse ==
  /\ cmdOut = None
  /\ cmdOut' = Some(ParseWeatherCommand(CmdText(cmdIn)))
  /\ UNCHANGED <<cmdIn, handlerVars>>

NextParse == Parse

SpecParse == InitParse /\ [][NextParse]_vars

(***************************************************************************)
(* The report the model returns (zod schema Output)                        *)
(***************************************************************************)
MaxForecast == 7
PreviewDays == 3

Min(a, b) == IF a < b THEN a ELSE b

Day(i) ==
  [date |-> "day" \o ToString(i), high_temp |-> 20 + i, low_temp |-> 10 - i,
   condition |-> "sky" \o ToString(i)]

Forecast(n) == [i \in 1..n |-> Day(i)]

Items(kind, n) == [i \in 1..n |-> kind \o ToString(i)]

\* an optional list: absent, or present with 0..MaxItems entries
OptItems(kind) == {None} \cup {Some(Items(kind, n)) : n \in 0..MaxItems}

OptForecasts == {None} \cup {Some(Forecast(n)) : n \in 1..MaxForecast}

Temps == {None, Some(0), Some(21), Some(-3)}
Humidities == {None, Some(0), Some(55)}
WindSpeeds == {None, Some(0), Some(12)}

WeatherInfos ==
  [location : {"Paris"}, current_temp : Temps, condition : {"Sunny"},
   humidity : Humidities, wind_speed : WindSpeeds,
   recommendations : OptItems("tip")]

Reports ==
  [current_weather : WeatherInfos, forecast : OptForecasts,
   clothing_suggestions : OptItems("wear"),
   activity_recommendations : OptItems("do")]

MinimalInfo ==
  [location |-> "Paris", current_temp |-> None, condition |-> "Sunny",
   humidity |-> None, wind_speed |-> None, recommendations |-> None]

FullInfo ==
  [location |-> "Paris", current_temp |-> Some(21), condition |-> "Sunny",
   humidity |-> Some(55), wind_speed |-> Some(12),
   recommendations |-> Some(Items("tip", 1))]

\* reports that differ only in what the callback views read
ViewReports ==
  [current_weather : {MinimalInfo}, forecast : OptForecasts,
   clothing_suggestions : OptItems("wear"),
   activity_recommendations : OptItems("do")]

MinimalReport ==
  [current_weather |-> MinimalInfo, forecast |-> None,
   clothing_suggestions |-> None, activity_recommendations |-> None]

SampleReports ==
  { MinimalReport,
    [current_weather |-> FullInfo, forecast |-> Some(Forecast(1)),
     clothing_suggestions |-> Some(<<>>),
     activity_recommendations |-> Some(Items("do", 1))],
    [current_weather |-> FullInfo, forecast |-> Some(Forecast(5)),
     clothing_suggestions |-> Some(Items("wear", 2)),
     activity_recommendations |-> None] }

(***************************************************************************)
(* formatWeatherMessage                                                    *)
(***************************************************************************)
\* `if (x)` on an optional number: present and not 0
TruthyNumber(opt) == opt # None /\ opt[1] # 0

\* `xs?.length`, `xs && xs.length > 0`: present and not empty
NonEmptyList(opt) == opt # None /\ Len(opt[1]) > 0

Slice(xs, n) == SubSeq(xs, 1, Min(n, Len(xs)))

DayLine(day) ==
  <<day.date, ": ", ToString(day.high_temp), "deg/", ToString(day.low_temp),
    "deg - ", day.condition>>

DayLines(days) == [i \in 1..Len(days) |-> DayLine(days[i])]

BulletLines(items) == [i \in 1..Len(items) |-> <<"* ", items[i]>>]

NumberLine_Always(opt, label, unit) ==
  IF opt # None /\ opt[1] # 0 THEN <<<<label, ToString(opt[1]), unit>>>>
  ELSE <<<<label, "undefined", unit>>>>

NumberLine(opt, label, unit) ==
  IF TruthyNumber(opt) THEN <<<<label, ToString(opt[1]), unit>>>> ELSE <<>>

ListSection_Placeholder(opt, heading) ==
  IF NonEmptyList(opt)
  THEN <<<<>>, <<heading>>>> \o BulletLines(opt[1])
  ELSE <<<<>>, <<heading>>, <<"* ", "none">>>>

ListSection(opt, heading) ==
  IF NonEmptyList(opt)
  THEN <<<<>>, <<heading>>>> \o BulletLines(opt[1])
  ELSE <<>>

ForecastPreview_All(opt, heading) ==
  IF NonEmptyList(opt)
  THEN <<<<>>, <<heading>>>> \o DayLines(opt[1])
  ELSE <<>>

ForecastPreview(opt, heading) ==
  IF NonEmptyList(opt)
  THEN <<<<>>, <<heading>>>> \o DayLines(Slice(opt[1], PreviewDays))
  ELSE <<>>

\* the literal fragments of the three variants' templates
Lit(v) ==
  IF v = "part"
  THEN [headerL |-> "*Weather for ", headerR |-> "*", block |-> <<>>,
        temp |-> "Temp: ", wind |-> "Wind: ",
        forecast |-> "*Forecast (next 3 days):*", wear |-> "*What to wear:*",
        activities |-> "*Activities:*", tips |-> "*Tips:*"]
  ELSE [headerL |-> "**Weather for ", headerR |-> "**",
        block |-> <<<<"**Current Conditions:**">>>>,
        temp |-> "Temperature: ", wind |-> "Wind Speed: ",
        forecast |-> "**Forecast (next 3 days):**",
        wear |-> "**What to wear:**",
        activities |-> "**Activity suggestions:**", tips |-> "**Tips:**"]

HeaderLine(v, cw) == <<Lit(v).headerL, cw.location, Lit(v).headerR>>
ConditionLine(cw) == <<"Condition: ", cw.condition>>

FormatWeatherMessage(v, weather) ==
  LET cw == weather.current_weather
  IN <<HeaderLine(v, cw), <<>>>>
     \o Lit(v).block
     \o NumberLine(cw.current_temp, Lit(v).temp, "degC")
     \o <<ConditionLine(cw)>>
     \o NumberLine(cw.humidity, "Humidity: ", "%")
     \o NumberLine(cw.wind_speed, Lit(v).wind, " km/h")
     \o ForecastPreview(weather.forecast, Lit(v).forecast)
     \o ListSection(weather.clothing_suggestions, Lit(v).wear)
     \o ListSection(weather.activity_recommendations, Lit(v).activities)
     \o ListSection(cw.recommendations, Lit(v).tips)

(***************************************************************************)
(* Calls on the transport and on the model client                          *)
(***************************************************************************)
Fx(by, op, to, body, markup) ==
  [by |-> by, op |-> op, to |-> to, body |-> body, markup |-> markup]

SendMessage(by, chatId, body, markup) ==
  Fx(by, "sendMessage", chatId, body, markup)
SendChatAction(by, chatId) ==
  Fx(by, "sendChatAction", chatId, <<<<"typing">>>>, <<>>)
AnswerCallbackQuery(by, id) == Fx(by, "answerCallbackQuery", id, <<>>, <<>>)
\* getWeatherInfo: one generateObject call; the prompt embeds both arguments
GenerateObject(by, loc, prefs) ==
  Fx(by, "generateObject", 0, <<loc, prefs>>, <<>>)

UsageHint(v) ==
  IF v = "part"
  THEN <<<<"Please provide a location!">>, <<"Example:">>,
         <<"/weather London, running">>>>
  ELSE <<<<"Please provide a location!">>, <<>>, <<"Examples:">>,
         <<"* /weather New York">>, <<"* /weather London, outdoor activities">>,
         <<"* /weather Tokyo, running">>>>

MessageApology(v) ==
  IF v = "part"
  THEN <<<<"Could not fetch weather info.">>>>
  ELSE <<<<"Sorry, I couldn't get weather information right now. Please try again.">>>>

SomethingWentWrong == <<<<"Something went wrong. Please try again.">>>>
CallbackApology == <<<<"Could not fetch info for that option.">>>>

StartMessage(v, userMessage) ==
  IF v = "bot"
  THEN <<<<>>, <<"**Weather Bot is ready!**">>, <<>>, <<"Commands:">>,
         <<"* /weather location - Get current weather">>,
         <<"* /weather location, preferences - Get personalized weather info">>,
         <<>>, <<"Examples:">>, <<"* /weather Paris">>,
         <<"* /weather Tokyo, outdoor sports">>,
         <<"* /weather London, business meeting">>, <<>>,
         <<"Hello  You said: ">> \o userMessage,
         <<>>, <<"Try sending:">>, <<"* /weather [location] - Get weather info">>,
         <<"* /weather New York, hiking - Weather with activity suggestions">>>>
  ELSE IF v = "api"
  THEN <<<<"**Weather Bot is ready!**">>, <<>>, <<"Commands:">>,
         <<"* /weather [location] - Get current weather">>,
         <<"* /weather [location], [preferences] - Get personalized weather info">>>>
  ELSE <<<<"*Weather Bot ready!*">>, <<"Use /weather [location]">>>>

HelpMessage(v) ==
  IF v = "bot"
  THEN <<<<>>, <<"**Weather Bot Help**">>, <<>>, <<"Examples:">>,
         <<"* /weather New York">>, <<"* /weather London, running">>,
         <<"* /weather Tokyo, business casual">>>>
  ELSE <<<<"**Weather Bot Help**">>, <<>>, <<"Examples:">>,
         <<"* /weather New York (code)">>, <<"* /weather London, running (code)">>,
         <<"* /weather Tokyo, business casual (code)">>>>

(***************************************************************************)
(* bot.on("message")                                                       *)
(***************************************************************************)
Variants == {"bot", "api", "part"}
CallbackVariants == {"bot", "api"}    \* part_000 registers no callback_query handler

\* the three tests of the `if`; part_000 tests /^\/weather|weather|^\/w\s/i
IsWeatherRequest(v, text) ==
  LET lower == ToLowerCase(text)
  IN IF v = "part"
     THEN \/ StartsWith(lower, SlashWeather)
          \/ Includes(lower, WeatherWord)
          \/ (StartsWith(lower, SlashW) /\ Len(lower) >= 3 /\ IsSpace(lower[3]))
     ELSE \/ StartsWith(lower, SlashWeather)
          \/ Includes(lower, WeatherWord)
          \/ StartsWith(lower, SlashW \o <<" ">>)

EmptyLocation_Never(loc) == FALSE

\* `!location`
EmptyLocation(loc) == loc = <<>>

ButtonLabels ==
  <<"Today", "Tomorrow", "3 Days", "Clothing Tips", "Activities", "Full Forecast">>
ButtonActions ==
  << <<"t","o","d","a","y">>, <<"t","o","m","o","r","r","o","w">>,
     <<"3","d","a","y","s">>, <<"c","l","o","t","h","e","s">>,
     <<"a","c","t","i","v","i","t","i","e","s">>,
     <<"f","o","r","e","c","a","s","t">> >>

\* callback_data: `${action}_${location}`
Buttons(loc) ==
  [i \in 1..6 |-> [text |-> ButtonLabels[i],
                   callback_data |-> ButtonActions[i] \o <<"_">> \o loc]]

\* inline keyboard of the summary; part_000 sends none
SummaryMarkup(v, loc) == IF v = "part" THEN <<>> ELSE Buttons(loc)

\* The handler from its start to its first await (or its return):
\* what it called, its locals, and where it stands.
MessageHandler(v, chatId, text) ==
  LET stop(calls) ==
        [pc |-> "done", location |-> <<>>, preferences |-> <<>>, fx |-> calls]
  IN IF text = None
     THEN \* bot.js has no `if (!text) return`: text.toLowerCase() throws
          \* inside the outer try, whose catch reports it to the chat
          IF v = "bot"
          THEN stop(<<SendMessage("message", chatId, SomethingWentWrong, <<>>)>>)
          ELSE stop(<<>>)
     ELSE IF ~IsWeatherRequest(v, text[1])
     THEN stop(<<>>)
     ELSE LET parsed == ParseWeatherCommand(text[1])
              typing == SendChatAction("message", chatId)
              hint == SendMessage("message", chatId, UsageHint(v), <<>>)
          IN IF EmptyLocation(parsed.location)
             THEN stop(IF v = "part" THEN <<hint>> ELSE <<typing, hint>>)
             ELSE [pc |-> "awaitModel",
                   location |-> parsed.location,
                   preferences |-> parsed.preferences,
                   fx |-> <<typing, GenerateObject("message", parsed.location,
                                                   parsed.preferences)>>]

\* bot.onText(/\/start/), bot.onText(/\/help/): every registered pattern that
\* matches the text runs, after the "message" listeners
OnText(v, chatId, text) ==
  IF text = None THEN <<>>
  ELSE (IF Includes(text[1], SlashStart)
        THEN <<SendMessage("start", chatId, StartMessage(v, text[1]), <<>>)>>
        ELSE <<>>)
       \o
       (IF v # "part" /\ Includes(text[1], SlashHelp)
        THEN <<SendMessage("help", chatId, HelpMessage(v), <<>>)>>
        ELSE <<>>)

\* the catch block around the fetch and the send
CatchFx_Silent(v, kind, chatId) == <<>>

CatchFx(v, kind, chatId) ==
  IF kind = "message"
  THEN <<SendMessage("message", chatId, MessageApology(v), <<>>)>>
  ELSE <<SendMessage("callback_query", chatId, CallbackApology, <<>>)>>

(***************************************************************************)
(* bot.on("callback_query")                                                *)
(***************************************************************************)
AckFx_Late(id) == <<>>

AckFx(id) == <<AnswerCallbackQuery("callback_query", id)>>

\* bot.js:     const [action, ...locParts] = data.split("_"); locParts.join("_")
\* api/bot.js: const [action, location] = data.split("_")
DecodeCallback(v, data) ==
  LET parts == Split(data, {"_"})
  IN IF v = "bot"
     THEN [action |-> parts[1], location |-> Join(Tail(parts), <<"_">>)]
     ELSE [action |-> parts[1],
           location |-> IF Len(parts) >= 2 THEN parts[2] ELSE Undefined]

DayView(title, loc, day) ==
  << <<title>> \o loc \o <<":*">>,
     <<"High: ", ToString(day.high_temp), "degC">>,
     <<"Low: ", ToString(day.low_temp), "degC">>,
     <<"Condition: ", day.condition>> >>

ListView(title, loc, lines) == << <<title>> \o loc \o <<":*">>, <<>> >> \o lines

\* the if/else-if chain on `action`: the body to send, if any
CallbackView(act, loc, weather) ==
  LET f == weather.forecast
  IN IF act = ButtonActions[1]
     THEN IF f # None /\ Len(f[1]) >= 1
          THEN Some(DayView("*Today's Forecast for ", loc, f[1][1])) ELSE None
     ELSE IF act = ButtonActions[2]
     THEN IF f # None /\ Len(f[1]) >= 2
          THEN Some(DayView("*Tomorrow's Forecast for ", loc, f[1][2])) ELSE None
     ELSE IF act = ButtonActions[3]
     THEN IF NonEmptyList(f)
          THEN Some(ListView("*3-Day Forecast for ", loc,
                             DayLines(Slice(f[1], PreviewDays))))
          ELSE None
     ELSE IF act = ButtonActions[4]
     THEN IF NonEmptyList(weather.clothing_suggestions)
          THEN Some(ListView("*Clothing Tips for ", loc,
                             BulletLines(weather.clothing_suggestions[1])))
          ELSE None
     ELSE IF act = ButtonActions[5]
     THEN IF NonEmptyList(weather.activity_recommendations)
          THEN Some(ListView("*Activity Suggestions for ", loc,
                             BulletLines(weather.activity_recommendations[1])))
          ELSE None
     ELSE IF act = ButtonActions[6]
     THEN IF NonEmptyList(f)
          THEN Some(ListView("*Full Forecast for ", loc, DayLines(f[1])))
          ELSE None
     ELSE None

(***************************************************************************)
(* Updates delivered by the transport                                      *)
(***************************************************************************)
Chats == {7, 8}
CallbackIds == {31, 32}

RECURSIVE Concat(_)
Concat(ps) == IF ps = <<>> THEN <<>> ELSE Head(ps) \o Concat(Tail(ps))

MessagePieces ==
  { SlashWeather, <<"W","e","a","t","h","e","r">>, SlashW, SlashStart, SlashHelp,
    <<" ">>, <<",">>, <<"P">>, <<"N","_","Y">> }

Texts == {Concat(ps) : ps \in SeqsUpTo(MessagePieces, MaxPieces) \ {<<>>}}

Update(kind, chat, id, text, data) ==
  [kind |-> kind, chat |-> chat, id |-> id, text |-> text, data |-> data]

NoUpdate == Update("none", 0, 0, None, None)

\* a message without text is a photo, a sticker, ...
MessageUpdates ==
  {Update("message", c, 0, t, None) :
     c \in Chats, t \in {None} \cup {Some(x) : x \in Texts}}

CallbackHeads ==
  {ButtonActions[i] : i \in 1..6} \cup {<<"n","o","w">>}

CallbackData ==
  {h \o t : h \in CallbackHeads, t \in SeqsUpTo({"_", "N", " "}, MaxTail)}

CallbackUpdates ==
  {Update("callback_query", c, i, None, Some(d)) :
     c \in Chats, i \in CallbackIds, d \in CallbackData}

SampleMessages ==
  {Update("message", 7, 0, Some(SlashWeather \o <<" ", "P">>), None)}

SampleCallbacks ==
  {Update("callback_query", 8, 31, None, Some(h \o <<"_", "P">>)) :
     h \in CallbackHeads}

(***************************************************************************)
(* The handlers, one step per stretch between awaits                       *)
(***************************************************************************)
Idle(U) ==
  /\ pc = [u \in U |-> "idle"]
  /\ upd = [u \in U |-> NoUpdate]
  /\ action = [u \in U |-> <<>>]
  /\ location = [u \in U |-> <<>>]
  /\ preferences = [u \in U |-> <<>>]
  /\ weatherData = [u \in U |-> None]
  /\ fx = [u \in U |-> <<>>]
  /\ generation = [u \in U |-> "none"]

ParserIdle ==
  /\ cmdIn = [prefix |-> <<>>, gap |-> <<>>, segs |-> <<<<>>>>,
              delims |-> <<",", ",">>]
  /\ cmdOut = None

Init ==
  /\ variant \in Variants
  /\ Idle({1})
  /\ ParserIdle

ChatId_ModuleLevel(u) ==
  upd[CHOOSE w \in DOMAIN pc :
        /\ upd[w].kind # "none"
        /\ \A x \in DOMAIN pc : upd[x].kind # "none" => x <= w].chat

\* `const chatId = msg.chat.id`, `const chatId = callbackQuery.message.chat.id`:
\* a local of the handler's closure, read again after each await
ChatId(u) == upd[u].chat

\* processUpdate for a message: the "message" listener runs to its first
\* await, then the onText callbacks whose pattern matches
ReceiveMessage(u, messages) ==
  /\ pc[u] = "idle"
  /\ \E m \in messages :
       LET r == MessageHandler(variant, m.chat, m.text)
       IN /\ pc' = [pc EXCEPT ![u] = r.pc]
          /\ location' = [location EXCEPT ![u] = r.location]
          /\ preferences' = [preferences EXCEPT ![u] = r.preferences]
          /\ fx' = [fx EXCEPT ![u] = r.fx \o OnText(variant, m.chat, m.text)]
          /\ upd' = [upd EXCEPT ![u] = m]
          /\ generation' = [generation EXCEPT ![u] =
                              IF r.pc = "awaitModel" THEN "pending" ELSE @]
  /\ UNCHANGED <<variant, action, weatherData, cmdIn, cmdOut>>

\* processUpdate for a callback query: up to `await bot.answerCallbackQuery`
ReceiveCallback(u, callbacks) ==
  /\ pc[u] = "idle"
  /\ variant \in CallbackVariants
  /\ pc' = [pc EXCEPT ![u] = "awaitAck"]
  /\ \E q \in callbacks :
       /\ upd' = [upd EXCEPT ![u] = q]
       /\ fx' = [fx EXCEPT ![u] = AckFx(q.id)]
  /\ UNCHANGED <<generation, variant, action, location, preferences, weatherData,
                 cmdIn, cmdOut>>

\* the acknowledgement resolved: decode the payload, start the fetch
AckResolves(u) ==
  /\ pc[u] = "awaitAck"
  /\ LET d == DecodeCallback(variant, upd[u].data[1])
     IN /\ action' = [action EXCEPT ![u] = d.action]
        /\ location' = [location EXCEPT ![u] = d.location]
        /\ fx' = [fx EXCEPT ![u] =
                    @ \o <<GenerateObject("callback_query", d.location, <<>>)>>]
  /\ pc' = [pc EXCEPT ![u] = "awaitModel"]
  /\ generation' = [generation EXCEPT ![u] = "pending"]
  /\ UNCHANGED <<variant, upd, preferences, weatherData, cmdIn, cmdOut>>

\* the acknowledgement rejected: it is awaited outside the try
AckRejects(u) ==
  /\ pc[u] = "awaitAck"
  /\ pc' = [pc EXCEPT ![u] = "rejected"]
  /\ UNCHANGED <<generation, variant, upd, action, location, preferences, weatherData,
                 fx, cmdIn, cmdOut>>

\* generateObject rejected (network, service, schema): getWeatherInfo
\* rethrows, the handler's catch runs
ModelRejects(u) ==
  /\ pc[u] = "awaitModel"
  /\ fx' = [fx EXCEPT ![u] = @ \o CatchFx(variant, upd[u].kind, ChatId(u))]
  /\ pc' = [pc EXCEPT ![u] = "done"]
  /\ generation' = [generation EXCEPT ![u] = "rejected"]
  /\ UNCHANGED <<variant, upd, action, location, preferences, weatherData,
                 cmdIn, cmdOut>>

\* generateObject resolved with a schema-valid report: the summary with its
\* buttons is sent and awaited
SummaryResolves(u, reports) ==
  /\ pc[u] = "awaitModel"
  /\ upd[u].kind = "message"
  /\ \E r \in reports :
       /\ fx' = [fx EXCEPT ![u] =
                   @ \o <<SendMessage("message", ChatId(u),
                                      FormatWeatherMessage(variant, r),
                                      SummaryMarkup(variant, location[u]))>>]
       /\ weatherData' = [weatherData EXCEPT ![u] = Some(r)]
  /\ pc' = [pc EXCEPT ![u] = "awaitSend"]
  /\ generation' = [generation EXCEPT ![u] = "fulfilled"]
  /\ UNCHANGED <<variant, upd, action, location, preferences, cmdIn, cmdOut>>

\* generateObject resolved in the callback handler: `weatherData` is bound,
\* the view of `action` is sent and awaited, or the handler returns having
\* sent nothing
ViewResolves(u, reports) ==
  /\ pc[u] = "awaitModel"
  /\ upd[u].kind = "callback_query"
  /\ \E r \in reports :
       LET view == CallbackView(action[u], location[u], r)
       IN /\ weatherData' = [weatherData EXCEPT ![u] = Some(r)]
          /\ IF view = None
             THEN /\ pc' = [pc EXCEPT ![u] = "done"]
                  /\ UNCHANGED fx
             ELSE /\ fx' = [fx EXCEPT ![u] =
                              @ \o <<SendMessage("callback_query", ChatId(u),
                                                 view[1], <<>>)>>]
                  /\ pc' = [pc EXCEPT ![u] = "awaitSend"]
  /\ generation' = [generation EXCEPT ![u] = "fulfilled"]
  /\ UNCHANGED <<variant, upd, action, location, preferences, cmdIn, cmdOut>>

\* the awaited sendMessage resolved: the handler returns
SendResolves(u) ==
  /\ pc[u] = "awaitSend"
  /\ pc' = [pc EXCEPT ![u] = "done"]
  /\ UNCHANGED <<generation, variant, upd, action, location, preferences,
                 weatherData, fx, cmdIn, cmdOut>>

\* the awaited sendMessage rejected: it is inside the try, the catch runs
SendRejects(u) ==
  /\ pc[u] = "awaitSend"
  /\ fx' = [fx EXCEPT ![u] = @ \o CatchFx(variant, upd[u].kind, ChatId(u))]
  /\ pc' = [pc EXCEPT ![u] = "done"]
  /\ UNCHANGED <<generation, variant, upd, action, location, preferences,
                 weatherData, cmdIn, cmdOut>>

\* every text and payload, a few reports
Next ==
  \/ \E u \in DOMAIN pc : ReceiveMessage(u, MessageUpdates)
  \/ \E u \in DOMAIN pc : ReceiveCallback(u, CallbackUpdates)
  \/ \E u \in DOMAIN pc : AckResolves(u)
  \/ \E u \in DOMAIN pc : AckRejects(u)
  \/ \E u \in DOMAIN pc : ModelRejects(u)
  \/ \E u \in DOMAIN pc : SummaryResolves(u, SampleReports)
  \/ \E u \in DOMAIN pc : ViewResolves(u, SampleReports)
  \/ \E u \in DOMAIN pc : SendResolves(u)
  \/ \E u \in DOMAIN pc : SendRejects(u)

Spec == Init /\ [][Next]_vars

\* a few texts and payloads, every report
NextReports ==
  \/ \E u \in DOMAIN pc : ReceiveMessage(u, SampleMessages)
  \/ \E u \in DOMAIN pc : ReceiveCallback(u, SampleCallbacks)
  \/ \E u \in DOMAIN pc : AckResolves(u)
  \/ \E u \in DOMAIN pc : AckRejects(u)
  \/ \E u \in DOMAIN pc : ModelRejects(u)
  \/ \E u \in DOMAIN pc : SummaryResolves(u, Reports)
  \/ \E u \in DOMAIN pc : ViewResolves(u, ViewReports)
  \/ \E u \in DOMAIN pc : SendResolves(u)
  \/ \E u \in DOMAIN pc : SendRejects(u)

SpecReports == Init /\ [][NextReports]_vars

(***************************************************************************)
(* Several updates in flight: processUpdate starts a handler for each      *)
(* update as it arrives; the handlers interleave at their awaits.          *)
(***************************************************************************)
\* one chat sends a message and presses a button, the other does the same
ConcurrentMessages ==
  { Update("message", 7, 0, Some(SlashWeather \o <<" ", "P">>), None),
    Update("message", 8, 0, Some(SlashStart \o <<" ">> \o WeatherWord), None) }

ConcurrentCallbacks ==
  { Update("callback_query", 8, 32, None, Some(ButtonActions[1] \o <<"_", "P">>)),
    Update("callback_query", 7, 31, None, Some(ButtonActions[4] \o <<"_", "N">>)) }

InitConcurrent ==
  /\ variant \in Variants
  /\ Idle(1..MaxUpdates)
  /\ ParserIdle

NextConcurrent ==
  \/ \E u \in DOMAIN pc : ReceiveMessage(u, ConcurrentMessages)
  \/ \E u \in DOMAIN pc : ReceiveCallback(u, ConcurrentCallbacks)
  \/ \E u \in DOMAIN pc : AckResolves(u)
  \/ \E u \in DOMAIN pc : AckRejects(u)
  \/ \E u \in DOMAIN pc : ModelRejects(u)
  \/ \E u \in DOMAIN pc : SummaryResolves(u, SampleReports)
  \/ \E u \in DOMAIN pc : ViewResolves(u, SampleReports)
  \/ \E u \in DOMAIN pc : SendResolves(u)
  \/ \E u \in DOMAIN pc : SendRejects(u)

SpecConcurrent == InitConcurrent /\ [][NextConcurrent]_vars

(***************************************************************************)
(* What a handler did, read off its calls                                  *)
(***************************************************************************)
Handlers == DOMAIN pc

CallsOf(u, op) == SelectSeq(fx[u], LAMBDA e : e.op = op)

\* the messages the update's own listener sent (not the onText callbacks)
SentBy(u, by) == SelectSeq(fx[u], LAMBDA e : e.op = "sendMessage" /\ e.by = by)

Last(xs) == xs[Len(xs)]

NonBlank(body) == SelectSeq(body, LAMBDA l : l # <<>>)

IsDayLine(l) == Len(l) = 7 /\ l[2] = ": " /\ l[6] = "deg - "

Text(u) == upd[u].text[1]

\* the update's summary has been formatted and is being sent
Summarised(u) ==
  upd[u].kind = "message" /\ pc[u] = "awaitSend" /\ weatherData[u] # None

\* the update's callback view has been rendered and is being sent
Viewed(u) ==
  upd[u].kind = "callback_query" /\ pc[u] = "awaitSend" /\ weatherData[u] # None

(***************************************************************************)
(* C1                                                                      *)
(***************************************************************************)
\* C1: when generateObject rejects, on the message path and on the callback
\* path, the handler sends exactly one message, the apology of its path, to
\* the chat of the update it handles, and returns normally.
C1_OneApologyOnFailure ==
  \A u \in Handlers :
    generation[u] = "rejected" =>
      /\ pc[u] = "done"
      /\ Len(SentBy(u, upd[u].kind)) = 1
      /\ SentBy(u, upd[u].kind)[1].to = upd[u].chat
      /\ SentBy(u, upd[u].kind)[1].markup = <<>>
      /\ SentBy(u, upd[u].kind)[1].body =
           (IF upd[u].kind = "message" THEN MessageApology(variant)
            ELSE CallbackApology)
      /\ Len(CallsOf(u, "generateObject")) = 1

C1_Witness ==
  \E u \in Handlers :
    /\ generation[u] = "rejected"
    /\ upd[u].kind = "callback_query"
    /\ upd[u].chat = 8
    /\ Len(SentBy(u, "callback_query")) = 1

(***************************************************************************)
(* C2                                                                      *)
(***************************************************************************)
\* C2: a text recognised as a weather request whose parsed location is empty
\* gets exactly one message from the message handler, the usage hint, and
\* the handler stops: generateObject is never called for that update.
C2_EmptyLocationStopsLocally ==
  \A u \in Handlers :
    ( /\ upd[u].kind = "message"
      /\ upd[u].text # None
      /\ IsWeatherRequest(variant, Text(u))
      /\ ParseWeatherCommand(Text(u)).location = <<>> ) =>
        /\ pc[u] = "done"
        /\ generation[u] = "none"
        /\ CallsOf(u, "generateObject") = <<>>
        /\ SentBy(u, "message") =
             <<SendMessage("message", upd[u].chat, UsageHint(variant), <<>>)>>

C2_Witness ==
  \E u \in Handlers :
    /\ upd[u].kind = "message"
    /\ upd[u].text = Some(SlashWeather \o <<",", "P">>)
    /\ Len(SentBy(u, "message")) = 1
    /\ pc[u] = "done"

(***************************************************************************)
(* C3                                                                      *)
(***************************************************************************)
\* C3: every payload `<action>_<L>` put on a button of a summary is decoded
\* by the callback handler of the same variant to that action and to L.
C3_PayloadRoundTrip ==
  \A u \in Handlers :
    Summarised(u) =>
      \A i \in 1..Len(Last(fx[u]).markup) :
        DecodeCallback(variant, Last(fx[u]).markup[i].callback_data) =
          [action |-> ButtonActions[i], location |-> location[u]]

(***************************************************************************)
(* C4                                                                      *)
(***************************************************************************)
HasLabel(body, label) == \E i \in 1..Len(body) : body[i] # <<>> /\ body[i][1] = label

CountLabel(body, label) ==
  Len(SelectSeq(body, LAMBDA l : l # <<>> /\ l[1] = label))

\* lines of a section: blank, heading, one per entry, at most `most` entries
SectionSize(opt, most) ==
  IF opt # None /\ Len(opt[1]) > 0 THEN 2 + Min(most, Len(opt[1])) ELSE 0

ListSize(opt) == IF opt = None THEN 0 ELSE SectionSize(opt, Len(opt[1]))

\* C4: in the summary of a schema-valid report, the temperature, humidity
\* and wind lines and the forecast, clothing, activity and tips sections
\* appear only when their source field is present (for a list: non-empty);
\* an absent or empty source contributes no line at all.
C4_NoSectionWithoutSource ==
  \A u \in Handlers :
    Summarised(u) =>
      LET m == Last(fx[u]).body
          r == weatherData[u][1]
          cw == r.current_weather
          lit == Lit(variant)
          bullets == SelectSeq(m, LAMBDA l : l # <<>> /\ l[1] = "* ")
          present(opt) == IF opt = None THEN <<>> ELSE opt[1]
          numbers == CountLabel(m, lit.temp) + CountLabel(m, "Humidity: ")
                       + CountLabel(m, lit.wind)
      IN /\ HasLabel(m, lit.temp) => cw.current_temp # None
         /\ HasLabel(m, "Humidity: ") => cw.humidity # None
         /\ HasLabel(m, lit.wind) => cw.wind_speed # None
         /\ HasLabel(m, lit.forecast) => NonEmptyList(r.forecast)
         /\ HasLabel(m, lit.wear) => NonEmptyList(r.clothing_suggestions)
         /\ HasLabel(m, lit.activities) => NonEmptyList(r.activity_recommendations)
         /\ HasLabel(m, lit.tips) => NonEmptyList(cw.recommendations)
         /\ (\E i \in 1..Len(m) : IsDayLine(m[i])) => NonEmptyList(r.forecast)
         /\ [i \in 1..Len(bullets) |-> bullets[i][2]] =
              present(r.clothing_suggestions)
                \o present(r.activity_recommendations)
                \o present(cw.recommendations)
         /\ Len(m) = 3 + Len(lit.block) + numbers
                       + SectionSize(r.forecast, 3)
                       + ListSize(r.clothing_suggestions)
                       + ListSize(r.activity_recommendations)
                       + ListSize(cw.recommendations)

C4_Witness ==
  \E u \in Handlers :
    /\ Summarised(u)
    /\ weatherData[u][1].clothing_suggestions = Some(<<>>)
    /\ weatherData[u][1].forecast = None
    /\ weatherData[u][1].current_weather.humidity = None
    /\ weatherData[u][1].current_weather.recommendations = Some(Items("tip", 2))
    /\ ~HasLabel(Last(fx[u]).body, Lit(variant).wear)
    /\ HasLabel(Last(fx[u]).body, Lit(variant).tips)

(***************************************************************************)
(* C5                                                                      *)
(***************************************************************************)
\* C5 (as amended): every summary holds the header line naming the location
\* and the condition line; for the minimal report (only location and
\* condition present) the only other non-blank line is the fixed
\* "Current Conditions:" heading that bot.js and api/bot.js put before the
\* block (part_000 has none), so no line of an optional field appears.
C5_GuaranteedLines ==
  \A u \in Handlers :
    Summarised(u) =>
      LET m == Last(fx[u]).body
          r == weatherData[u][1]
          header == <<Lit(variant).headerL, r.current_weather.location,
                      Lit(variant).headerR>>
          condition == <<"Condition: ", r.current_weather.condition>>
      IN /\ m[1] = header
         /\ \E i \in 2..Len(m) : m[i] = condition
         /\ r = MinimalReport =>
              NonBlank(m) =
                IF variant = "part" THEN <<header, condition>>
                ELSE <<header, <<"**Current Conditions:**">>, condition>>

C5_Witness ==
  \E u \in Handlers :
    /\ Summarised(u)
    /\ variant = "bot"
    /\ weatherData[u][1] = MinimalReport
    /\ Len(NonBlank(Last(fx[u]).body)) = 3

\* C5 (as stated): for the minimal report the header and the condition line
\* are the only lines of the summary.
C5_OnlyTwoLines ==
  \A u \in Handlers :
    (Summarised(u) /\ weatherData[u][1] = MinimalReport) =>
      Len(NonBlank(Last(fx[u]).body)) = 2

(***************************************************************************)
(* C6                                                                      *)
(***************************************************************************)
\* C6: for a forecast of n entries (1 <= n <= 7) the summary shows the first
\* min(3, n) entries, in order, and no other; the view of the callback
\* action "forecast" shows all n, in order.
C6_PreviewThreeFullAll ==
  \A u \in Handlers :
    LET r == weatherData[u][1]
        days == SelectSeq(Last(fx[u]).body, IsDayLine)
        rendered(k) ==
          [i \in 1..k |->
             <<r.forecast[1][i].date, ": ",
               ToString(r.forecast[1][i].high_temp), "deg/",
               ToString(r.forecast[1][i].low_temp), "deg - ",
               r.forecast[1][i].condition>>]
    IN /\ (Summarised(u) /\ r.forecast # None) =>
            days = rendered(Min(3, Len(r.forecast[1])))
       /\ (Viewed(u) /\ action[u] = ButtonActions[6]) =>
            days = rendered(Len(r.forecast[1]))

C6_Witness ==
  \E u \in Handlers :
    /\ Summarised(u)
    /\ weatherData[u][1].forecast = Some(Forecast(5))
    /\ Len(SelectSeq(Last(fx[u]).body, IsDayLine)) = 3

(***************************************************************************)
(* C7                                                                      *)
(***************************************************************************)
TrimEach(parts) == [i \in 1..Len(parts) |-> Trim(parts[i])]

\* C7 (as amended): parseWeatherCommand strips a leading case-insensitive
\* /weather token and the whitespace after it, splits the rest on comma,
\* semicolon or pipe, returns the trimmed first segment as location, and
\* returns as preferences the remaining segments, each exactly as typed,
\* joined by one space, the joined string trimmed at its two ends only.
C7_ParseBySegments ==
  cmdOut # None =>
    /\ cmdOut[1].location = Trim(cmdIn.segs[1])
    /\ cmdOut[1].preferences = Trim(Join(Tail(cmdIn.segs), <<" ">>))

C7_Witness ==
  /\ cmdOut # None
  /\ cmdIn.prefix = SlashWeather
  /\ Len(cmdIn.segs) = 3
  /\ cmdOut[1].location = <<"P">>
  /\ cmdOut[1].preferences = <<"P", " ", " ", "P">>

\* C7 (as stated): the preferences hold the remaining segments with exactly
\* one space between consecutive segments.
C7_SingleSpaced ==
  cmdOut # None =>
    /\ cmdOut[1].location = Trim(cmdIn.segs[1])
    /\ cmdOut[1].preferences =
         Trim(Join(TrimEach(Tail(cmdIn.segs)), <<" ">>))

(***************************************************************************)
(* C8                                                                      *)
(***************************************************************************)
\* what the "message" listener did for the update, whatever the call
DoneBy(u, by) == SelectSeq(fx[u], LAMBDA e : e.by = by)

\* C8: the message handler of bot.js and api/bot.js acts on a message
\* (typing indicator, model call or reply) if and only if the message has a
\* text whose lowercase form starts with /weather, contains "weather" or
\* starts with "/w "; any other message, a message without text included,
\* draws nothing from it.
C8_OnlyWeatherRequestsHandled ==
  \A u \in Handlers :
    (upd[u].kind = "message" /\ variant \in {"bot", "api"}) =>
      ( DoneBy(u, "message") # <<>>
        <=> /\ upd[u].text # None
            /\ \/ StartsWith(ToLowerCase(Text(u)), SlashWeather)
               \/ Includes(ToLowerCase(Text(u)), WeatherWord)
               \/ StartsWith(ToLowerCase(Text(u)), <<"/", "w", " ">>) )

(***************************************************************************)
(* C9                                                                      *)
(***************************************************************************)
\* C9: for a text matching /start or /help, generateObject is never called,
\* and the reply of the command is the same message whatever the text is.
C9_StaticCommands ==
  \A u \in Handlers :
    (upd[u].kind = "message" /\ upd[u].text # None) =>
      /\ Includes(Text(u), SlashStart) =>
           /\ CallsOf(u, "generateObject") = <<>>
           /\ SentBy(u, "start") =
                <<SendMessage("start", upd[u].chat,
                              StartMessage(variant, SlashStart), <<>>)>>
      /\ (Includes(Text(u), SlashHelp) /\ variant # "part") =>
           /\ CallsOf(u, "generateObject") = <<>>
           /\ SentBy(u, "help") =
                <<SendMessage("help", upd[u].chat, HelpMessage(variant), <<>>)>>

(***************************************************************************)
(* C10                                                                     *)
(***************************************************************************)
\* C10: the callback handler's first call is answerCallbackQuery with the
\* id of the update, before generateObject and before any message; it makes
\* that call once, whatever the payload and whatever becomes of the fetch.
C10_AckFirstAndOnce ==
  \A u \in Handlers :
    upd[u].kind = "callback_query" =>
      /\ fx[u] # <<>>
      /\ fx[u][1] = AnswerCallbackQuery("callback_query", upd[u].id)
      /\ Len(CallsOf(u, "answerCallbackQuery")) = 1

C10_Witness ==
  \E u \in Handlers :
    /\ upd[u].kind = "callback_query"
    /\ upd[u].id = 32
    /\ generation[u] = "rejected"
    /\ Len(fx[u]) = 3
    /\ fx[u][1].op = "answerCallbackQuery"
    /\ fx[u][2].op = "generateObject"
    /\ fx[u][3].op = "sendMessage"

(***************************************************************************)
(* C11                                                                     *)
(***************************************************************************)
\* the data the claim names for each of the six actions, read off the report
ViewDataPresent(act, r) ==
  LET days == IF r.forecast = None THEN 0 ELSE Len(r.forecast[1])
      count(opt) == IF opt = None THEN 0 ELSE Len(opt[1])
  IN \/ act = <<"t","o","d","a","y">> /\ days >= 1
     \/ act = <<"t","o","m","o","r","r","o","w">> /\ days >= 2
     \/ act = <<"3","d","a","y","s">> /\ days >= 1
     \/ act = <<"c","l","o","t","h","e","s">> /\ count(r.clothing_suggestions) >= 1
     \/ act = <<"a","c","t","i","v","i","t","i","e","s">>
          /\ count(r.activity_recommendations) >= 1
     \/ act = <<"f","o","r","e","c","a","s","t">> /\ days >= 1

\* the callback handler of the update got its report and has returned
Refetched(u) ==
  /\ upd[u].kind = "callback_query"
  /\ generation[u] = "fulfilled"
  /\ pc[u] = "done"

\* C11: a callback handler whose re-fetch succeeded has, when it returns,
\* called sendMessage exactly once (to the chat of the update) if its action
\* is one of the six and the data of that action is in the report, and not
\* at all otherwise.
C11_OneViewOrNothing ==
  \A u \in Handlers :
    Refetched(u) =>
      IF ViewDataPresent(action[u], weatherData[u][1])
      THEN /\ Len(CallsOf(u, "sendMessage")) = 1
           /\ CallsOf(u, "sendMessage")[1].to = upd[u].chat
      ELSE CallsOf(u, "sendMessage") = <<>>

(***************************************************************************)
(* C12                                                                     *)
(***************************************************************************)
\* the line of a number that is present: label, value, unit
ShowsNumber(body, opt, label, unit) ==
  opt # None =>
    \E i \in 1..Len(body) : body[i] = <<label, ToString(opt[1]), unit>>

\* C12: in the summary of a schema-valid report, a present current_temp,
\* humidity or wind_speed has its temperature, humidity or wind line, showing
\* the value, whatever value the schema allows for the field, 0 included.
C12_LineForEveryPresentNumber ==
  \A u \in Handlers :
    Summarised(u) =>
      LET m == Last(fx[u]).body
          cw == weatherData[u][1].current_weather
      IN /\ ShowsNumber(m, cw.current_temp, Lit(variant).temp, "degC")
         /\ ShowsNumber(m, cw.humidity, "Humidity: ", "%")
         /\ ShowsNumber(m, cw.wind_speed, Lit(variant).wind, " km/h")

(***************************************************************************)
(* C13                                                                     *)
(***************************************************************************)
\* the calls a handler makes for an update, from that update's payload and
\* from the outcome and the report of its own generateObject call, up to
\* and including the message it sends on that outcome
OwnCalls(v, m, outcome, report) ==
  LET after(kind, sent) ==
        IF outcome = "rejected" THEN CatchFx(v, kind, m.chat)
        ELSE IF outcome = "fulfilled" THEN sent
        ELSE <<>>
  IN IF m.kind = "message"
     THEN LET r == MessageHandler(v, m.chat, m.text)
          IN r.fx \o OnText(v, m.chat, m.text)
               \o after("message",
                        <<SendMessage("message", m.chat,
                                      FormatWeatherMessage(v, report[1]),
                                      SummaryMarkup(v, r.location))>>)
     ELSE IF m.kind = "callback_query"
     THEN LET d == DecodeCallback(v, m.data[1])
              view == CallbackView(d.action, d.location, report[1])
          IN AckFx(m.id)
               \o (IF outcome = "none" THEN <<>>
                   ELSE <<GenerateObject("callback_query", d.location, <<>>)>>)
               \o after("callback_query",
                        IF view = None THEN <<>>
                        ELSE <<SendMessage("callback_query", m.chat,
                                           view[1], <<>>)>>)
     ELSE <<>>

\* everything the model keeps for one update
HandlerState(u) ==
  <<pc[u], upd[u], action[u], location[u], preferences[u], weatherData[u],
    fx[u], generation[u]>>

\* at every moment, for every update in flight
OwnCallsOnly ==
  \A u \in Handlers :
    LET own == OwnCalls(variant, upd[u], generation[u], weatherData[u])
    IN /\ \/ fx[u] = own
          \/ /\ pc[u] = "done"
             /\ generation[u] = "fulfilled"
             /\ fx[u] = own \o CatchFx(variant, upd[u].kind, upd[u].chat)
       /\ \A i \in 1..Len(fx[u]) :
            /\ fx[u][i].op \in {"sendMessage", "sendChatAction"} =>
                 fx[u][i].to = upd[u].chat
            /\ fx[u][i].op = "answerCallbackQuery" => fx[u][i].to = upd[u].id
       /\ Len(CallsOf(u, "generateObject")) <= 1

\* in every step, whatever the interleaving
OneHandlerPerStep ==
  /\ variant' = variant
  /\ \A u, w \in Handlers :
       (u # w /\ HandlerState(u)' # HandlerState(u)) =>
         HandlerState(w)' = HandlerState(w)

\* C13: with several updates (messages and callbacks, of the same chat or of
\* different chats) in flight and their handlers interleaved at the awaits
\* in every order, each handler's calls are exactly those its own update's
\* payload and its own generateObject outcome determine (a rejected send
\* adds only the fixed apology), every message and typing indicator goes
\* to the chat of the handler's own update, each update has at most one
\* generateObject call, and a step of one handler changes nothing of any
\* other handler.
C13_HandlersIsolated == [] OwnCallsOnly /\ [][OneHandlerPerStep]_vars

C13_Witness ==
  /\ upd[1].kind = "message" /\ upd[1].chat = 7
  /\ upd[2].kind = "callback_query" /\ upd[2].chat = 8
  /\ pc[1] = "awaitSend" /\ pc[2] = "awaitSend"
  /\ weatherData[1] # weatherData[2]
  /\ Last(fx[1]).to = 7 /\ Last(fx[2]).to = 8
  /\ Last(fx[1]).body # Last(fx[2]).body

====
